---- MODULE Spec2Model ----
(***************************************************************************)
(* Model of crates/rspack_core/src/compiler/make/repair/build.rs:          *)
(* BuildTask::async_run (the asynchronous, cacheable build step) and       *)
(* BuildResultTask::sync_run (the synchronous integration of one build     *)
(* outcome into the module graph and the make context).                    *)
(***************************************************************************)
EXTENDS Integers, Sequences, FiniteSets, TLC

\* ------------------------------------------------------------------ bounds

\* Dependencies plus blocks created by all builds of one run of the pipeline.
MaxNodes == 2

\* Dependencies plus blocks of the one outcome whose integration is examined
\* on its own.
MaxForestNodes == 5

\* ------------------------------------------------------------- value types

\* Module identifiers of the units that are built.
Units == {"A", "B"}

\* Messages a module can accumulate while it builds, as clone_diagnostics
\* returns them.
DiagnosticLists == {<<>>, <<"w1", "w2">>}

\* Option<T>
None == <<>>
Some(x) == <<x>>
is_none(o) == Len(o) = 0
is_some(o) == Len(o) = 1
unwrap(o) == o[1]

\* Result<T, E>
Ok(v) == [ok |-> TRUE, val |-> v]
Err(e) == [ok |-> FALSE, err |-> e]

\* A map with no entries, and insertion of one entry.
EmptyMap == [x \in {} |-> TRUE]
insert(map, k, v) == [x \in (DOMAIN map) \cup {k} |-> IF x = k THEN v ELSE map[x]]

\* Number of calls recorded for a key in a call counter.
count(calls, k) == IF k \in DOMAIN calls THEN calls[k] ELSE 0
bump(calls, k) == insert(calls, k, count(calls, k) + 1)

RECURSIVE SeqSum(_)
SeqSum(s) == IF s = <<>> THEN 0 ELSE Head(s) + SeqSum(Tail(s))

\* ------------------------------------------------- build outcomes (inputs)

\* The blocks of one outcome are numbered 1..n in the order the build creates
\* them (depth first); par[i] is the block that contains block i, 0 for a
\* top-level block.  Every finite ordered forest has exactly one such vector.
RECURSIVE AncestorsOrSelf(_, _)
AncestorsOrSelf(par, i) ==
  IF i = 0 THEN {} ELSE {i} \cup AncestorsOrSelf(par, par[i])

ParentVectors(n) ==
  {par \in [1..n -> 0..(n - 1)] :
     \A i \in 1..n :
       /\ par[i] < i
       /\ i > 1 => par[i] \in AncestorsOrSelf(par, i - 1) \cup {0}}

RECURSIVE CountSum(_, _)
CountSum(cnt, c) == IF c < 0 THEN 0 ELSE cnt[c] + CountSum(cnt, c - 1)

\* cnt[c] is the number of dependencies held directly by container c
\* (0 is the outcome itself, i > 0 is block i).
DependencyCounts(n, budget) ==
  {cnt \in [0..n -> 0..budget] : CountSum(cnt, n) <= budget}

RECURSIVE ChildrenFrom(_, _, _, _)
ChildrenFrom(par, n, p, i) ==
  IF i > n THEN <<>>
  ELSE IF par[i] = p THEN <<i>> \o ChildrenFrom(par, n, p, i + 1)
  ELSE ChildrenFrom(par, n, p, i + 1)

\* Dependency ids come from one process-wide counter (d0 is its value before
\* the build), block identifiers likewise (b0), so ids are pairwise distinct.
DependenciesOf(cnt, d0, c) ==
  [j \in 1..cnt[c] |-> [id |-> d0 + CountSum(cnt, c - 1) + j]]

RECURSIVE MakeBlock(_, _, _, _, _, _)
MakeBlock(par, n, cnt, d0, b0, b) ==
  LET kids == ChildrenFrom(par, n, b, b + 1)
  IN [id |-> b0 + b,
      dependencies |-> DependenciesOf(cnt, d0, b),
      blocks |-> [j \in 1..Len(kids) |-> MakeBlock(par, n, cnt, d0, b0, kids[j])]]

BuildInfoOf(u) ==
  [file_dependencies |-> {<<u, "file">>},
   context_dependencies |-> {<<u, "context">>},
   missing_dependencies |-> {<<u, "missing">>},
   build_dependencies |-> {<<u, "build">>}]

MakeBuildResult(u, par, n, cnt, d0, b0) ==
  LET tops == ChildrenFrom(par, n, 0, 1)
  IN [dependencies |-> DependenciesOf(cnt, d0, 0),
      blocks |-> [j \in 1..Len(tops) |-> MakeBlock(par, n, cnt, d0, b0, tops[j])],
      analyze_result |-> <<u, "analysis">>,
      optimization_bailouts |-> <<>>,
      build_info |-> BuildInfoOf(u),
      build_meta |-> <<u, "meta">>]

\* Every outcome of at most budget dependencies and blocks a build of u can
\* produce when d0 dependency ids and b0 block identifiers are already taken.
BuildResultsWithin(u, d0, b0, budget) ==
  UNION {
    UNION {
      {MakeBuildResult(u, par, n, cnt, d0, b0) : cnt \in DependencyCounts(n, budget - n)}
      : par \in ParentVectors(n)}
    : n \in 0..budget}

BuildResults(u, d0, b0) == BuildResultsWithin(u, d0, b0, MaxNodes - d0 - b0)

\* Number of dependency objects and of blocks in a forest.
RECURSIVE CountDependencies(_, _)
CountDependencies(dependencies, blocks) ==
  Len(dependencies)
  + SeqSum([j \in 1..Len(blocks) |->
             CountDependencies(blocks[j].dependencies, blocks[j].blocks)])

RECURSIVE CountBlocks(_)
CountBlocks(blocks) ==
  Len(blocks) + SeqSum([j \in 1..Len(blocks) |-> CountBlocks(blocks[j].blocks)])

\* ------------------------------------------------ collaborators' operations

\* Diagnostic::with_module_identifier
with_module_identifier(d, id) == [d EXCEPT !.module_identifier = id]

\* Module::clone_diagnostics: the diagnostics a module holds, not yet tagged.
RawDiagnostics(messages) ==
  [j \in 1..Len(messages) |-> [message |-> messages[j], module_identifier |-> None]]

\* IntoTWithDiagnosticArray::with_diagnostic and
\* TWithDiagnosticArray::split_into_parts
with_diagnostic(t, diagnostics) == [inner |-> t, diagnostic |-> diagnostics]
split_into_parts(x) == <<x.inner, x.diagnostic>>

\* Module::add_dependency_id, Module::add_block_id, set_build_info,
\* set_build_meta
add_dependency_id(module, dependency_id) ==
  [module EXCEPT !.dependencies = Append(@, dependency_id)]
add_block_id(module, block_id) ==
  [module EXCEPT !.blocks = Append(@, block_id)]
set_build_info(module, build_info) == [module EXCEPT !.build_info = Some(build_info)]
set_build_meta(module, build_meta) == [module EXCEPT !.build_meta = Some(build_meta)]

\* A module as it enters BuildTask: nothing registered on it yet.
NewModule(u) ==
  [identifier |-> u, dependencies |-> <<>>, blocks |-> <<>>,
   diagnostics |-> <<>>, build_info |-> None, build_meta |-> None]

\* ModuleGraph::set_parents, add_dependency, add_block, add_module; each also
\* counts its calls per key.
set_parents(module_graph, dependency_id, parents) ==
  [module_graph EXCEPT !.parents = insert(@, dependency_id, parents),
                       !.set_parents_calls = bump(@, dependency_id)]
add_dependency(module_graph, dependency) ==
  [module_graph EXCEPT !.dependencies = insert(@, dependency.id, dependency),
                       !.add_dependency_calls = bump(@, dependency.id)]
add_block(module_graph, block) ==
  [module_graph EXCEPT !.blocks = insert(@, block.id, block),
                       !.add_block_calls = bump(@, block.id)]
add_module(module_graph, module) ==
  [module_graph EXCEPT !.modules = insert(@, module.identifier, module),
                       !.add_module_calls = bump(@, module.identifier)]

\* AsyncDependenciesBlock::take_dependencies / take_blocks leave the block
\* without the lists they return.
taken(block) == [block EXCEPT !.dependencies = <<>>, !.blocks = <<>>]

\* ------------------------------------------ BuildResultTask::sync_run: flatten

\* A variant that takes the block registered last on the module for the
\* containing block.
DependencyParents_last_registered(current_block, module) ==
  [block |-> IF module.blocks = <<>> THEN None
             ELSE Some(module.blocks[Len(module.blocks)]),
   module |-> module.identifier]

\* A variant that loses the containing block.
DependencyParents_module_only(current_block, module) ==
  [block |-> None, module |-> module.identifier]

DependencyParents(current_block, module) ==
  [block |-> IF is_some(current_block) THEN Some(unwrap(current_block).id) ELSE None,
   module |-> module.identifier]

\* Whether a dependency handled under current_block is registered on the
\* module itself.
registers_on_module_always(current_block) == TRUE

registers_on_module(current_block) == is_none(current_block)

\* The body of the for loop of handle_block, for one dependency.
link_dependency(s, dependency, current_block) ==
  LET dependency_id == dependency.id
      m1 == IF registers_on_module(current_block)
              THEN add_dependency_id(s.module, dependency_id)
              ELSE s.module
      g1 == set_parents(s.module_graph, dependency_id,
                        DependencyParents(current_block, s.module))
  IN [module |-> m1,
      all_dependencies |-> Append(s.all_dependencies, dependency_id),
      module_graph |-> add_dependency(g1, dependency)]

RECURSIVE link_dependencies(_, _, _)
link_dependencies(s, dependencies, current_block) ==
  IF dependencies = <<>> THEN s
  ELSE link_dependencies(link_dependency(s, Head(dependencies), current_block),
                         Tail(dependencies), current_block)

\* The registration of the handled block on the module and in the graph.
register_block(s, current_block) ==
  IF is_some(current_block)
    THEN [s EXCEPT !.module = add_block_id(@, unwrap(current_block).id),
                   !.module_graph = add_block(@, unwrap(current_block))]
    ELSE s

\* The closure handle_block; state is what it captures mutably, blocks what
\* it returns.
handle_block(s, dependencies, blocks, current_block) ==
  [state |-> register_block(link_dependencies(s, dependencies, current_block),
                            current_block),
   blocks |-> blocks]

\* Variants: the queue used as a stack, and an extend that keeps only the
\* first of the returned blocks.
pop_back(queue) == [item |-> queue[Len(queue)], rest |-> SubSeq(queue, 1, Len(queue) - 1)]
extend_first_only(queue, blocks) ==
  queue \o (IF blocks = <<>> THEN <<>> ELSE <<Head(blocks)>>)

\* A variant of the queue's extend that enqueues the returned blocks twice.
extend_twice(queue, blocks) == queue \o blocks \o blocks

\* VecDeque::pop_front and VecDeque::extend
pop_front(queue) == [item |-> Head(queue), rest |-> Tail(queue)]
extend(queue, blocks) == queue \o blocks

\* The while loop over the queue.
RECURSIVE drain_queue(_, _)
drain_queue(s, queue) ==
  IF queue = <<>> THEN s
  ELSE LET popped == pop_front(queue)
           block == popped.item
           r == handle_block(s, block.dependencies, block.blocks, Some(taken(block)))
       IN drain_queue(r.state, extend(popped.rest, r.blocks))

\* Lines 171-205: the module, the flat id list and the graph after the
\* outcome's forest has been linked.
flatten(module, module_graph, build_result) ==
  LET s0 == [module |-> module, all_dependencies |-> <<>>, module_graph |-> module_graph]
      r == handle_block(s0, build_result.dependencies, build_result.blocks, None)
  IN drain_queue(r.state, extend(<<>>, r.blocks))

\* --------------------------------------------- BuildResultTask::sync_run

\* A variant whose miss forgets the hits counted before it.
count_cache_miss_resets(build_cache_counter, from_cache) ==
  IF is_some(build_cache_counter)
    THEN IF from_cache
           THEN Some([unwrap(build_cache_counter) EXCEPT !.hit = @ + 1])
           ELSE Some([hit |-> 0, miss |-> unwrap(build_cache_counter).miss + 1])
    ELSE build_cache_counter

\* A variant that counts a hit as a miss and a miss as a hit.
count_cache_swapped(build_cache_counter, from_cache) ==
  IF is_some(build_cache_counter)
    THEN IF from_cache
           THEN Some([unwrap(build_cache_counter) EXCEPT !.miss = @ + 1])
           ELSE Some([unwrap(build_cache_counter) EXCEPT !.hit = @ + 1])
    ELSE build_cache_counter

\* CacheCount::hit / CacheCount::miss on the optional counter.
count_cache(build_cache_counter, from_cache) ==
  IF is_some(build_cache_counter)
    THEN IF from_cache
           THEN Some([unwrap(build_cache_counter) EXCEPT !.hit = @ + 1])
           ELSE Some([unwrap(build_cache_counter) EXCEPT !.miss = @ + 1])
    ELSE build_cache_counter

marks_failed_always(diagnostics) == TRUE

\* Whether the module is recorded in make_failed_module.
marks_failed(diagnostics) == diagnostics # <<>>

\* ModuleGraph::get_optimization_bailout_mut(..).extend(..)
extend_optimization_bailout(module_graph, identifier, bailouts) ==
  [module_graph EXCEPT !.optimization_bailouts =
     insert(@, identifier,
            (IF identifier \in DOMAIN @ THEN @[identifier] ELSE <<>>) \o bailouts)]

\* Lines 133-169: everything sync_run does to the context before it flattens.
record_outcome(task, context) ==
  LET identifier == task.module.identifier
      build_info == task.build_result.build_info
  IN [context EXCEPT
        !.build_cache_counter = count_cache(@, task.from_cache),
        !.optimize_analyze_result_map =
           IF context.compiler_options.tree_shaking
             THEN insert(@, identifier, task.build_result.analyze_result)
             ELSE @,
        !.make_failed_module =
           IF marks_failed(task.diagnostics) THEN @ \cup {identifier} ELSE @,
        !.diagnostics = @ \o task.diagnostics,
        !.module_graph_partial =
           extend_optimization_bailout(@, identifier,
                                       task.build_result.optimization_bailouts),
        !.file_dependencies = @ \cup build_info.file_dependencies,
        !.context_dependencies = @ \cup build_info.context_dependencies,
        !.missing_dependencies = @ \cup build_info.missing_dependencies,
        !.build_dependencies = @ \cup build_info.build_dependencies]

\* Lines 207-215: the per-module record receives the flat list and the profile.
attach_to_mgm(mgm, all_dependencies, current_profile) ==
  [mgm EXCEPT !.__deprecated_all_dependencies = all_dependencies,
              !.profile = IF is_some(current_profile) THEN current_profile ELSE @]

\* A variant that hands on a list already moved out of.
ProcessDependenciesTask_moved(all_dependencies, module_identifier) ==
  [dependencies |-> <<>>,
   original_module_identifier |-> module_identifier]

\* Lines 224-227
ProcessDependenciesTask(all_dependencies, module_identifier) ==
  [dependencies |-> all_dependencies,
   original_module_identifier |-> module_identifier]

\* The whole of sync_run ends here: the context it leaves and what it
\* returns.  When the graph holds no per-module record the expect on line 210
\* panics after the forest has been linked; nothing is returned then.
\* Lines 207-228: what sync_run does with the flattened forest f.
attach_and_return(task, c1, f) ==
  LET module_identifier == f.module.identifier
      g1 == f.module_graph
  IN IF module_identifier \notin DOMAIN g1.module_graph_modules
       THEN [context |-> [c1 EXCEPT !.module_graph_partial = g1],
             panicked |-> TRUE,
             tasks |-> <<>>]
       ELSE LET g2 == [g1 EXCEPT !.module_graph_modules[module_identifier] =
                          attach_to_mgm(@, f.all_dependencies, task.current_profile)]
                m1 == set_build_meta(set_build_info(f.module, task.build_result.build_info),
                                     task.build_result.build_meta)
            IN [context |-> [c1 EXCEPT !.module_graph_partial = add_module(g2, m1)],
                panicked |-> FALSE,
                tasks |-> <<ProcessDependenciesTask(f.all_dependencies, module_identifier)>>]

sync_run(task, context) ==
  LET c1 == record_outcome(task, context)
      f == flatten(task.module, c1.module_graph_partial, task.build_result)
  IN attach_and_return(task, c1, f)

\* ------------------------------------------------------------------- state

VARIABLES
  pc,                  \* per unit: the await BuildTask::async_run stands at
  module,              \* per unit: the module the BuildTask owns
  current_profile,     \* per unit: Option<ModuleProfile> of the BuildTask
  result,              \* per unit: the Result held across the pending await
  error,               \* per unit: the error async_run returned, if it failed
  trace,               \* per unit: the calls async_run has made and how each
                       \* ended, in order
  cache_served,        \* per unit: whether use_cache served a valid entry
  returned,            \* per unit: what use_cache returned to async_run
  next_dependency_id,  \* dependency ids handed out so far
  next_block_id,       \* block identifiers handed out so far
  result_tasks,        \* BuildResultTasks returned and not yet run
  process_tasks,       \* ProcessDependenciesTasks returned, in order
  panicked,            \* units whose sync_run panicked
  integrated,          \* the BuildResultTasks sync_run has consumed (history)
  context,             \* MakeTaskContext
  loop                 \* the sync_run under way when it is followed line by
                       \* line: its locals

vars == <<pc, module, current_profile, result, error, trace, cache_served,
          returned, next_dependency_id, next_block_id, result_tasks,
          process_tasks, panicked, integrated, context, loop>>

task_vars == <<pc, module, current_profile, result, error, trace, cache_served,
               returned>>
id_vars == <<next_dependency_id, next_block_id>>
sync_vars == <<process_tasks, panicked, integrated, context, loop>>

NewModuleGraph ==
  [modules |-> EmptyMap, dependencies |-> EmptyMap, blocks |-> EmptyMap,
   parents |-> EmptyMap,
   module_graph_modules |->
     [u \in Units |-> [__deprecated_all_dependencies |-> <<>>, profile |-> None]],
   optimization_bailouts |-> EmptyMap,
   set_parents_calls |-> EmptyMap, add_dependency_calls |-> EmptyMap,
   add_block_calls |-> EmptyMap, add_module_calls |-> EmptyMap]

NewContext(tree_shaking, build_cache_counter) ==
  [build_cache_counter |-> build_cache_counter,
   module_graph_partial |-> NewModuleGraph,
   compiler_options |-> [tree_shaking |-> tree_shaking],
   optimize_analyze_result_map |-> EmptyMap,
   make_failed_module |-> {},
   diagnostics |-> <<>>,
   file_dependencies |-> {}, context_dependencies |-> {},
   missing_dependencies |-> {}, build_dependencies |-> {}]

Init ==
  /\ pc = [u \in Units |-> "new"]
  /\ module = [u \in Units |-> NewModule(u)]
  /\ current_profile = [u \in Units |-> None]
  /\ result = [u \in Units |-> None]
  /\ error = [u \in Units |-> None]
  /\ trace = [u \in Units |-> <<>>]
  /\ cache_served = [u \in Units |-> None]
  /\ returned = [u \in Units |-> None]
  /\ next_dependency_id = 0
  /\ next_block_id = 0
  /\ result_tasks = {}
  /\ process_tasks = <<>>
  /\ panicked = {}
  /\ integrated = {}
  /\ loop = None
  /\ \E tree_shaking \in BOOLEAN :
       \E build_cache_counter \in {None, Some([hit |-> 0, miss |-> 0])} :
         context = NewContext(tree_shaking, build_cache_counter)

\* ------------------------------------------------- BuildTask::async_run

\* ModuleProfile::mark_building_start / mark_building_end
mark_building_start(profile) ==
  IF is_some(profile) THEN Some([unwrap(profile) EXCEPT !.building_start = TRUE]) ELSE profile
mark_building_end(profile) ==
  IF is_some(profile) THEN Some([unwrap(profile) EXCEPT !.building_end = TRUE]) ELSE profile

\* One entry of a trace: the call made and whether it returned Ok.
Called(call, ok) == [call |-> call, ok |-> ok]

marked(profile, call) == IF is_some(profile) THEN <<Called(call, TRUE)>> ELSE <<>>

\* Lines 75-82: what the compute closure returns after succeed_module.
closure_return(build, m) ==
  IF build.ok
    THEN Ok(<<with_diagnostic(build.val,
                [j \in 1..Len(m.diagnostics) |->
                   with_module_identifier(m.diagnostics[j], Some(m.identifier))]),
              m>>)
    ELSE build

\* A variant that reports every outcome as freshly built.
BuildResultTask_never_from_cache(m, build_result, profile, is_cache_valid) ==
  LET parts == split_into_parts(build_result)
  IN [module |-> m, build_result |-> parts[1], diagnostics |-> parts[2],
      current_profile |-> profile, from_cache |-> FALSE]

\* Lines 98-107
BuildResultTask(m, build_result, profile, is_cache_valid) ==
  LET parts == split_into_parts(build_result)
  IN [module |-> m, build_result |-> parts[1], diagnostics |-> parts[2],
      current_profile |-> profile, from_cache |-> is_cache_valid]

\* async_run returns Err(e) through a ? operator.
Propagate(u, e, tr) ==
  /\ pc' = [pc EXCEPT ![u] = "failed"]
  /\ error' = [error EXCEPT ![u] = Some(e)]
  /\ trace' = [trace EXCEPT ![u] = tr]
  /\ result' = [result EXCEPT ![u] = None]
  /\ UNCHANGED <<module, current_profile, result_tasks>>

\* A variant that returns without marking the end of the build.
Finish_no_mark(u, build_result, is_cache_valid, tr) ==
  /\ UNCHANGED current_profile
  /\ trace' = [trace EXCEPT ![u] = tr]
  /\ result' = [result EXCEPT ![u] = None]
  /\ UNCHANGED module
  /\ IF build_result.ok
       THEN /\ pc' = [pc EXCEPT ![u] = "done"]
            /\ error' = error
            /\ result_tasks' = result_tasks \cup
                 {BuildResultTask(module[u], build_result.val, current_profile[u],
                                  is_cache_valid)}
       ELSE /\ pc' = [pc EXCEPT ![u] = "failed"]
            /\ error' = [error EXCEPT ![u] = Some(build_result.err)]
            /\ UNCHANGED result_tasks

\* Lines 94-107: mark the end of the build and return the successor, or the
\* build's error.
Finish(u, build_result, is_cache_valid, tr) ==
  LET profile == mark_building_end(current_profile[u])
  IN /\ current_profile' = [current_profile EXCEPT ![u] = profile]
     /\ trace' = [trace EXCEPT ![u] = tr \o marked(profile, "mark_building_end")]
     /\ result' = [result EXCEPT ![u] = None]
     /\ UNCHANGED module
     /\ IF build_result.ok
          THEN /\ pc' = [pc EXCEPT ![u] = "done"]
               /\ error' = error
               /\ result_tasks' = result_tasks \cup
                    {BuildResultTask(module[u], build_result.val, profile, is_cache_valid)}
          ELSE /\ pc' = [pc EXCEPT ![u] = "failed"]
               /\ error' = [error EXCEPT ![u] = Some(build_result.err)]
               /\ UNCHANGED result_tasks

\* BuildModuleOccasion::use_cache, when it ran the compute closure: what it
\* returns for what the closure returned.  A closure error comes back either
\* as use_cache's own error or inside the pair.
use_cache_returns(closure_ret) ==
  IF closure_ret.ok
    THEN {Ok(<<Ok(closure_ret.val[1]), FALSE>>)}
    ELSE {Err(closure_ret.err), Ok(<<closure_ret, FALSE>>)}

\* Lines 84-107 once the compute closure has returned: use_cache returns, its
\* error is propagated, and with is_cache_valid false the task finishes.
Returns(u, ret, tr) ==
  /\ returned' = [returned EXCEPT ![u] = Some(ret)]
  /\ IF ret.ok
       THEN Finish(u, ret.val[1], ret.val[2], tr)
       ELSE Propagate(u, ret.err, tr)

AfterCompute(u, closure_ret, tr) ==
  \E ret \in use_cache_returns(closure_ret) : Returns(u, ret, tr)

\* Lines 29-43: the task starts, marks the start of the build and calls
\* use_cache.
StartBuildTask(u) ==
  /\ pc[u] = "new"
  /\ \E profile \in {None, Some([building_start |-> FALSE, building_end |-> FALSE])} :
       /\ current_profile' = [current_profile EXCEPT ![u] = mark_building_start(profile)]
       /\ trace' = [trace EXCEPT ![u] =
                      marked(profile, "mark_building_start")
                      \o <<Called("use_cache", TRUE)>>]
  /\ pc' = [pc EXCEPT ![u] = "use_cache"]
  /\ UNCHANGED <<module, result, error, cache_served, returned, id_vars,
                 result_tasks, sync_vars>>

\* use_cache serves a valid entry: the outcome of an earlier build of the
\* module with its tagged diagnostics; is_cache_valid is true and line 87
\* calls still_valid_module.
UseCacheHit(u) ==
  /\ pc[u] = "use_cache"
  /\ \E r \in BuildResults(module[u].identifier, next_dependency_id, next_block_id) :
       \E messages \in DiagnosticLists :
         LET m == [NewModule(module[u].identifier) EXCEPT !.diagnostics = RawDiagnostics(messages)]
             data == closure_return(Ok(r), m).val[1]
         IN /\ result' = [result EXCEPT ![u] = Ok(data)]
            /\ returned' = [returned EXCEPT ![u] = Some(Ok(<<Ok(data), TRUE>>))]
            /\ next_dependency_id' =
                 next_dependency_id + CountDependencies(r.dependencies, r.blocks)
            /\ next_block_id' = next_block_id + CountBlocks(r.blocks)
  /\ pc' = [pc EXCEPT ![u] = "still_valid_module"]
  /\ cache_served' = [cache_served EXCEPT ![u] = Some(TRUE)]
  /\ UNCHANGED <<module, current_profile, error, trace, result_tasks, sync_vars>>

\* use_cache has no valid entry and invokes the compute closure (line 43).
UseCacheMiss(u) ==
  /\ pc[u] = "use_cache"
  /\ pc' = [pc EXCEPT ![u] = "build_module"]
  /\ cache_served' = [cache_served EXCEPT ![u] = Some(FALSE)]
  /\ UNCHANGED <<module, current_profile, result, error, trace, returned, id_vars,
                 result_tasks, sync_vars>>

\* A variant that drops the ? on line 48: the hook's failure is not
\* propagated and the closure goes on to the build.
BuildModuleHook_error_ignored(u) ==
  /\ pc[u] = "build_module"
  /\ pc' = [pc EXCEPT ![u] = "build"]
  /\ \E ok \in BOOLEAN :
       trace' = [trace EXCEPT ![u] = Append(@, Called("build_module", ok))]
  /\ UNCHANGED <<module, current_profile, result, error, result_tasks>>
  /\ UNCHANGED <<cache_served, returned, id_vars, sync_vars>>

\* Lines 44-48: the build_module hook; its failure leaves the closure.
BuildModuleHook(u) ==
  /\ pc[u] = "build_module"
  /\ \/ /\ pc' = [pc EXCEPT ![u] = "build"]
        /\ trace' = [trace EXCEPT ![u] = Append(@, Called("build_module", TRUE))]
        /\ UNCHANGED <<module, current_profile, result, error, returned,
                       result_tasks>>
     \/ AfterCompute(u, Err("build_module"),
                     Append(trace[u], Called("build_module", FALSE)))
  /\ UNCHANGED <<cache_served, id_vars, sync_vars>>

\* Lines 50-67: Module::build returns an outcome or an error.
ModuleBuild(u) ==
  /\ pc[u] = "build"
  /\ pc' = [pc EXCEPT ![u] = "succeed_module"]
  /\ \/ /\ result' = [result EXCEPT ![u] = Err("build")]
        /\ trace' = [trace EXCEPT ![u] = Append(@, Called("build", FALSE))]
        /\ UNCHANGED <<module, id_vars>>
     \/ \E r \in BuildResults(module[u].identifier, next_dependency_id, next_block_id) :
          \E messages \in DiagnosticLists :
            /\ result' = [result EXCEPT ![u] = Ok(r)]
            /\ trace' = [trace EXCEPT ![u] = Append(@, Called("build", TRUE))]
            /\ module' = [module EXCEPT ![u].diagnostics = RawDiagnostics(messages)]
            /\ next_dependency_id' =
                 next_dependency_id + CountDependencies(r.dependencies, r.blocks)
            /\ next_block_id' = next_block_id + CountBlocks(r.blocks)
  /\ UNCHANGED <<current_profile, error, cache_served, returned, result_tasks,
                 sync_vars>>

\* A variant that calls the succeed_module hook only when Module::build
\* returned Ok.
SucceedModuleHook_only_on_success(u) ==
  /\ pc[u] = "succeed_module"
  /\ IF result[u].ok
       THEN \/ AfterCompute(u, closure_return(result[u], module[u]),
                            Append(trace[u], Called("succeed_module", TRUE)))
            \/ AfterCompute(u, Err("succeed_module"),
                            Append(trace[u], Called("succeed_module", FALSE)))
       ELSE AfterCompute(u, closure_return(result[u], module[u]), trace[u])
  /\ UNCHANGED <<cache_served, id_vars, sync_vars>>

\* A variant whose closure returns without calling the succeed_module hook.
SucceedModuleHook_not_called(u) ==
  /\ pc[u] = "succeed_module"
  /\ AfterCompute(u, closure_return(result[u], module[u]), trace[u])
  /\ UNCHANGED <<cache_served, id_vars, sync_vars>>

\* Lines 69-107: the succeed_module hook, the closure's return and the rest
\* of async_run.
SucceedModuleHook(u) ==
  /\ pc[u] = "succeed_module"
  /\ \/ AfterCompute(u, closure_return(result[u], module[u]),
                     Append(trace[u], Called("succeed_module", TRUE)))
     \/ AfterCompute(u, Err("succeed_module"),
                     Append(trace[u], Called("succeed_module", FALSE)))
  /\ UNCHANGED <<cache_served, id_vars, sync_vars>>

\* A variant that counts the cache hit from inside async_run.
StillValidModuleHook_counts_hit(u) ==
  /\ pc[u] = "still_valid_module"
  /\ \/ Finish(u, result[u], TRUE,
               Append(trace[u], Called("still_valid_module", TRUE)))
     \/ Propagate(u, "still_valid_module",
                  Append(trace[u], Called("still_valid_module", FALSE)))
  /\ context' = [context EXCEPT !.build_cache_counter = count_cache(@, TRUE)]
  /\ UNCHANGED <<cache_served, returned, id_vars, process_tasks, panicked,
                 integrated, loop>>

\* A variant that drops the ? on line 91: the hook's failure is not
\* propagated.
StillValidModuleHook_error_ignored(u) ==
  /\ pc[u] = "still_valid_module"
  /\ \E ok \in BOOLEAN :
       Finish(u, result[u], TRUE, Append(trace[u], Called("still_valid_module", ok)))
  /\ UNCHANGED <<cache_served, returned, id_vars, sync_vars>>

\* Lines 86-107 with is_cache_valid true: the still_valid_module hook and the
\* rest of async_run.
StillValidModuleHook(u) ==
  /\ pc[u] = "still_valid_module"
  /\ \/ Finish(u, result[u], TRUE,
               Append(trace[u], Called("still_valid_module", TRUE)))
     \/ Propagate(u, "still_valid_module",
                  Append(trace[u], Called("still_valid_module", FALSE)))
  /\ UNCHANGED <<cache_served, returned, id_vars, sync_vars>>

\* ------------------------------------------------- the task loop's sync step

\* The task loop runs one pending BuildResultTask.
SyncRun(task) ==
  LET r == sync_run(task, context)
  IN /\ context' = r.context
     /\ process_tasks' = process_tasks \o r.tasks
     /\ panicked' = IF r.panicked THEN panicked \cup {task.module.identifier} ELSE panicked
     /\ result_tasks' = result_tasks \ {task}
     /\ integrated' = integrated \cup {task}
     /\ UNCHANGED <<task_vars, id_vars, loop>>

Next ==
  \/ \E u \in Units : StartBuildTask(u)
  \/ \E u \in Units : UseCacheHit(u)
  \/ \E u \in Units : UseCacheMiss(u)
  \/ \E u \in Units : BuildModuleHook(u)
  \/ \E u \in Units : ModuleBuild(u)
  \/ \E u \in Units : SucceedModuleHook(u)
  \/ \E u \in Units : StillValidModuleHook(u)
  \/ \E task \in result_tasks : SyncRun(task)

Spec == Init /\ [][Next]_vars

\* ------------------------------------ one integration, examined on its own

\* The trace of an async_run that returned a BuildResultTask.
SuccessfulTrace(profile, from_cache) ==
  marked(profile, "mark_building_start")
  \o <<Called("use_cache", TRUE)>>
  \o (IF from_cache
        THEN <<Called("still_valid_module", TRUE)>>
        ELSE <<Called("build_module", TRUE), Called("build", TRUE),
               Called("succeed_module", TRUE)>>)
  \o marked(profile, "mark_building_end")

\* The BuildTask of unit A has returned its BuildResultTask for an outcome of
\* at most MaxForestNodes dependencies and blocks; the other unit has not
\* started.  The graph holds a per-module record for the modules of
\* with_record.
BuildTaskReturned(with_record) ==
  \E r \in BuildResultsWithin("A", 0, 0, MaxForestNodes) :
    \E messages \in DiagnosticLists, from_cache \in BOOLEAN :
      \E profile \in {None, Some([building_start |-> TRUE, building_end |-> TRUE])} :
        LET m == [NewModule("A") EXCEPT !.diagnostics = RawDiagnostics(messages)]
            data == closure_return(Ok(r), m).val[1]
            owned == IF from_cache THEN NewModule("A") ELSE m
        IN /\ pc = [u \in Units |-> IF u = "A" THEN "done" ELSE "new"]
           /\ module = [u \in Units |-> IF u = "A" THEN owned ELSE NewModule(u)]
           /\ current_profile = [u \in Units |-> IF u = "A" THEN profile ELSE None]
           /\ result = [u \in Units |-> None]
           /\ error = [u \in Units |-> None]
           /\ trace = [u \in Units |->
                          IF u = "A" THEN SuccessfulTrace(profile, from_cache) ELSE <<>>]
           /\ cache_served = [u \in Units |-> IF u = "A" THEN Some(from_cache) ELSE None]
           /\ returned = [u \in Units |->
                             IF u = "A" THEN Some(Ok(<<Ok(data), from_cache>>)) ELSE None]
           /\ next_dependency_id = CountDependencies(r.dependencies, r.blocks)
           /\ next_block_id = CountBlocks(r.blocks)
           /\ result_tasks = {BuildResultTask(owned, data, profile, from_cache)}
           /\ process_tasks = <<>>
           /\ panicked = {}
           /\ integrated = {}
           /\ loop = None
           /\ \E build_cache_counter \in {None, Some([hit |-> 0, miss |-> 0])} :
                context =
                  [NewContext(FALSE, build_cache_counter)
                     EXCEPT !.module_graph_partial.module_graph_modules =
                       [u \in with_record |-> @[u]]]

InitFlatten == BuildTaskReturned(Units)

NextFlatten == \E task \in result_tasks : SyncRun(task)

SpecFlatten == InitFlatten /\ [][NextFlatten]_vars

\* The same, with no per-module record for unit A in the graph.
InitOrphan == BuildTaskReturned(Units \ {"A"})

SpecOrphan == InitOrphan /\ [][NextFlatten]_vars

\* ------------------------------------- sync_run followed through its loop

\* What the closure handle_block captures, as the locals of loop hold it.
Captured(l) ==
  [module |-> l.module, all_dependencies |-> l.all_dependencies,
   module_graph |-> context.module_graph_partial]

\* Lines 124-199: sync_run starts on a task, records the outcome, handles the
\* top level of the forest and fills the queue.
BeginSyncRun(task) ==
  /\ loop = None
  /\ LET c1 == record_outcome(task, context)
         s0 == [module |-> task.module, all_dependencies |-> <<>>,
                module_graph |-> c1.module_graph_partial]
         r == handle_block(s0, task.build_result.dependencies,
                           task.build_result.blocks, None)
     IN /\ context' = [c1 EXCEPT !.module_graph_partial = r.state.module_graph]
        /\ loop' = Some([task |-> task,
                         module |-> r.state.module,
                         all_dependencies |-> r.state.all_dependencies,
                         queue |-> extend(<<>>, r.blocks),
                         dequeued |-> <<>>])
  /\ result_tasks' = result_tasks \ {task}
  /\ UNCHANGED <<task_vars, id_vars, process_tasks, panicked, integrated>>

\* Lines 201-205: one turn of the while loop.
LoopIteration ==
  /\ is_some(loop)
  /\ unwrap(loop).queue # <<>>
  /\ LET l == unwrap(loop)
         popped == pop_front(l.queue)
         block == popped.item
         r == handle_block(Captured(l), block.dependencies, block.blocks,
                           Some(taken(block)))
     IN /\ context' = [context EXCEPT !.module_graph_partial = r.state.module_graph]
        /\ loop' = Some([l EXCEPT !.module = r.state.module,
                                  !.all_dependencies = r.state.all_dependencies,
                                  !.queue = extend(popped.rest, r.blocks),
                                  !.dequeued = Append(@, block.id)])
  /\ UNCHANGED <<task_vars, id_vars, result_tasks, process_tasks, panicked, integrated>>

\* Lines 201 and 207-228: pop_front returns None, the loop is left and sync_run
\* ends.
EndSyncRun ==
  /\ is_some(loop)
  /\ unwrap(loop).queue = <<>>
  /\ LET l == unwrap(loop)
         r == attach_and_return(l.task, context, Captured(l))
     IN /\ context' = r.context
        /\ process_tasks' = process_tasks \o r.tasks
        /\ panicked' = IF r.panicked THEN panicked \cup {l.task.module.identifier}
                       ELSE panicked
        /\ integrated' = integrated \cup {l.task}
  /\ loop' = None
  /\ UNCHANGED <<task_vars, id_vars, result_tasks>>

NextLoop ==
  \/ \E task \in result_tasks : BeginSyncRun(task)
  \/ LoopIteration
  \/ EndSyncRun

\* The task loop goes on running the task it has started.
SpecLoop == InitFlatten /\ [][NextLoop]_vars /\ WF_vars(NextLoop)

\* --------------------------- two BuildTasks for one module identifier

\* Both BuildTasks own a module of identifier A.
InitShared ==
  /\ pc = [u \in Units |-> "new"]
  /\ module = [u \in Units |-> NewModule("A")]
  /\ current_profile = [u \in Units |-> None]
  /\ result = [u \in Units |-> None]
  /\ error = [u \in Units |-> None]
  /\ trace = [u \in Units |-> <<>>]
  /\ cache_served = [u \in Units |-> None]
  /\ returned = [u \in Units |-> None]
  /\ next_dependency_id = 0
  /\ next_block_id = 0
  /\ result_tasks = {}
  /\ process_tasks = <<>>
  /\ panicked = {}
  /\ integrated = {}
  /\ loop = None
  /\ context = NewContext(FALSE, None)

\* The task stands inside the compute closure use_cache invoked for it.
InComputePath(v) == pc[v] \in {"build_module", "build", "succeed_module"}

\* The tasks whose closure is computing the identifier of u's module.
ComputingFor(u) ==
  {v \in Units \ {u} :
     module[v].identifier = module[u].identifier /\ InComputePath(v)}

\* use_cache has no valid entry and no computation in flight for the
\* identifier: it invokes the compute closure.
UseCacheCompute(u) ==
  /\ ComputingFor(u) = {}
  /\ UseCacheMiss(u)

\* A variant of the cache that invokes the closure again while a computation
\* for the identifier is in flight.
UseCacheAwait_recomputes(u) ==
  /\ ComputingFor(u) # {}
  /\ UseCacheMiss(u)

\* use_cache finds a computation in flight for the identifier and awaits its
\* result instead of invoking the closure.
UseCacheAwait(u) ==
  /\ pc[u] = "use_cache"
  /\ ComputingFor(u) # {}
  /\ pc' = [pc EXCEPT ![u] = "awaiting"]
  /\ cache_served' = [cache_served EXCEPT ![u] = Some(FALSE)]
  /\ UNCHANGED <<module, current_profile, result, error, trace, returned, id_vars,
                 result_tasks, sync_vars>>

\* The computation awaited has ended: use_cache returns to the waiting task
\* what it returned to the computing one, and lines 84-107 run.
UseCacheAwaited(u) ==
  /\ pc[u] = "awaiting"
  /\ \E v \in Units \ {u} :
       /\ module[v].identifier = module[u].identifier
       /\ is_some(returned[v])
       /\ Returns(u, unwrap(returned[v]), trace[u])
  /\ UNCHANGED <<cache_served, id_vars, sync_vars>>

NextShared ==
  \/ \E u \in Units : StartBuildTask(u)
  \/ \E u \in Units : UseCacheCompute(u)
  \/ \E u \in Units : UseCacheAwait(u)
  \/ \E u \in Units : UseCacheAwaited(u)
  \/ \E u \in Units : BuildModuleHook(u)
  \/ \E u \in Units : ModuleBuild(u)
  \/ \E u \in Units : SucceedModuleHook(u)

SpecShared == InitShared /\ [][NextShared]_vars

\* ------------------------------------------------------------- properties

\* What the properties read.
Graph == context.module_graph_partial
ids_of(dependencies) == [j \in 1..Len(dependencies) |-> dependencies[j].id]
Occurrences(list, x) == Cardinality({i \in 1..Len(list) : list[i] = x})
IndexOf(list, x) == CHOOSE i \in 1..Len(list) : list[i] = x
EmittedFor(identifier) ==
  {i \in 1..Len(process_tasks) : process_tasks[i].original_module_identifier = identifier}
EmittedList(identifier) == process_tasks[CHOOSE i \in EmittedFor(identifier) : TRUE].dependencies

RECURSIVE Flat(_)
Flat(lists) == IF lists = <<>> THEN <<>> ELSE Head(lists) \o Flat(Tail(lists))

\* The forest of an outcome, read directly: each dependency id with the block
\* that directly contains it, each dependency id with its nesting depth, the
\* blocks level by level, the deepest nesting.
RECURSIVE ForestLinks(_, _, _)
ForestLinks(dependencies, blocks, current) ==
  {<<dependencies[j].id, current>> : j \in 1..Len(dependencies)}
  \cup UNION {ForestLinks(blocks[j].dependencies, blocks[j].blocks, Some(blocks[j].id))
              : j \in 1..Len(blocks)}

RECURSIVE ForestDepths(_, _, _)
ForestDepths(dependencies, blocks, k) ==
  {<<dependencies[j].id, k>> : j \in 1..Len(dependencies)}
  \cup UNION {ForestDepths(blocks[j].dependencies, blocks[j].blocks, k + 1)
              : j \in 1..Len(blocks)}

RECURSIVE LevelOrder(_)
LevelOrder(blocks) ==
  IF blocks = <<>> THEN <<>>
  ELSE blocks \o LevelOrder(Flat([j \in 1..Len(blocks) |-> blocks[j].blocks]))

RECURSIVE ForestDepth(_)
ForestDepth(blocks) ==
  IF blocks = <<>> THEN 0
  ELSE 1 + ForestDepth(Flat([j \in 1..Len(blocks) |-> blocks[j].blocks]))

ForestDependencyIds(r) == {l[1] : l \in ForestLinks(r.dependencies, r.blocks, None)}
NestedDependencyIds(r) ==
  {l[1] : l \in {x \in ForestLinks(r.dependencies, r.blocks, None) : is_some(x[2])}}

LevelOrderDependencyIds(r) ==
  LET level == LevelOrder(r.blocks)
  IN ids_of(r.dependencies)
     \o Flat([j \in 1..Len(level) |-> ids_of(level[j].dependencies)])

\* C1: after sync_run every dependency of the outcome's forest, top-level or
\* nested at any depth, has had its parent record set exactly once and has
\* been added to the graph exactly once, and the flat id list of the emitted
\* task holds each id exactly once, so its length is the number of dependency
\* objects of the forest.
C1_EveryDependencyLinkedOnce ==
  \A t \in integrated :
    LET r == t.build_result
        list == EmittedList(t.module.identifier)
    IN /\ \A d \in ForestDependencyIds(r) :
            /\ count(Graph.set_parents_calls, d) = 1
            /\ count(Graph.add_dependency_calls, d) = 1
            /\ d \in DOMAIN Graph.parents
            /\ d \in DOMAIN Graph.dependencies
            /\ Occurrences(list, d) = 1
       /\ Len(list) = CountDependencies(r.dependencies, r.blocks)
       /\ Cardinality(ForestDependencyIds(r)) = Len(list)

C1_Witness ==
  \E t \in integrated :
    /\ ForestDepth(t.build_result.blocks) >= 2
    /\ Len(t.build_result.dependencies) >= 1
    /\ Cardinality(NestedDependencyIds(t.build_result)) >= 2
    /\ process_tasks # <<>>

\* C2: after integration the parent record of every dependency is the pair of
\* the block that directly contains it (none for a top-level dependency of the
\* outcome) and the module that was built, never an enclosing block or
\* another module.
C2_ParentIsDirectContainer ==
  \A t \in integrated :
    \A l \in ForestLinks(t.build_result.dependencies, t.build_result.blocks, None) :
      /\ l[1] \in DOMAIN Graph.parents
      /\ Graph.parents[l[1]] = [block |-> l[2], module |-> t.module.identifier]

\* Scenario 2: a block B with a dependency and a nested block C with another.
C2_Witness ==
  \E t \in integrated :
    \E j \in 1..Len(t.build_result.blocks) :
      LET B == t.build_result.blocks[j]
      IN /\ B.dependencies # <<>>
         /\ \E k \in 1..Len(B.blocks) :
              /\ B.blocks[k].dependencies # <<>>
              /\ Graph.parents[B.blocks[k].dependencies[1].id].block = Some(B.blocks[k].id)
              /\ Graph.parents[B.dependencies[1].id].block = Some(B.id)

\* C3: after integration the block ids registered on the module are exactly
\* the outcome's top-level blocks; a nested block is not registered on it.
C3_ModuleBlocksAreTopLevel ==
  \A t \in integrated :
    t.module.identifier \in DOMAIN Graph.modules =>
      Graph.modules[t.module.identifier].blocks = ids_of(t.build_result.blocks)

\* C4: after integration the dependency ids registered directly on the module
\* are exactly the outcome's top-level dependencies, in the outcome's order; a
\* dependency held by a block at any depth is not among them.
C4_DirectDependenciesAreTopLevel ==
  \A t \in integrated :
    t.module.identifier \in DOMAIN Graph.modules =>
      LET direct == Graph.modules[t.module.identifier].dependencies
      IN /\ direct = ids_of(t.build_result.dependencies)
         /\ \A d \in NestedDependencyIds(t.build_result) : Occurrences(direct, d) = 0

C4_Witness ==
  \E t \in integrated :
    /\ Len(t.build_result.dependencies) >= 2
    /\ NestedDependencyIds(t.build_result) # {}
    /\ t.module.identifier \in DOMAIN Graph.modules
    /\ Len(Graph.modules[t.module.identifier].dependencies) >= 2

\* C5: the flat id list of the emitted task is in breadth-first order: the
\* top-level dependencies in their order, then block by block in the order
\* the blocks were enqueued, so a dependency at a smaller nesting depth comes
\* before every dependency at a greater one and the dependencies of one block
\* stay together and in order.
C5_FlatListIsBreadthFirst ==
  \A t \in integrated :
    LET r == t.build_result
        list == EmittedList(t.module.identifier)
        depths == ForestDepths(r.dependencies, r.blocks, 0)
    IN /\ list = LevelOrderDependencyIds(r)
       /\ \A a \in depths, b \in depths :
            a[2] < b[2] => IndexOf(list, a[1]) < IndexOf(list, b[1])

\* A dependency two blocks deep that was created before a dependency one
\* block deep, and is listed after it.
C5_Witness ==
  \E t \in integrated :
    LET list == EmittedList(t.module.identifier)
        depths == ForestDepths(t.build_result.dependencies, t.build_result.blocks, 0)
    IN \E a \in depths, b \in depths :
         /\ a[2] = 1 /\ b[2] = 2
         /\ b[1] < a[1]
         /\ IndexOf(list, a[1]) < IndexOf(list, b[1])

\* The hook and build calls of a unit's async_run, in order, and the tasks
\* that carry a unit.
HookCalls == {"build_module", "build", "succeed_module", "still_valid_module"}
IsHookCall(e) == e.call \in HookCalls
CallNames(u) ==
  LET calls == SelectSeq(trace[u], IsHookCall)
  IN [j \in 1..Len(calls) |-> calls[j].call]
HasCalled(u, call, ok) == \E j \in 1..Len(trace[u]) : trace[u][j] = Called(call, ok)
HasFailedCall(u) == \E j \in 1..Len(trace[u]) : ~trace[u][j].ok
Completed(u) == pc[u] \in {"done", "failed"}
IsPrefix(a, b) == Len(a) <= Len(b) /\ a = SubSeq(b, 1, Len(a))
TasksOf(u) == {t \in result_tasks \cup integrated : t.module.identifier = u}
IntegratedOf(u) == {t \in integrated : t.module.identifier = u}
MissCalls == <<"build_module", "build", "succeed_module">>
HitCalls == <<"still_valid_module">>

\* C6 as stated: in every run of async_run, on a valid cache entry none of
\* build_module, build and succeed_module is called and still_valid_module is;
\* on a miss build_module, build and succeed_module are each called exactly
\* once, in that order, and still_valid_module is not.
C6_HitOrMissCalls ==
  \A u \in Units :
    Completed(u) =>
      /\ cache_served[u] = Some(TRUE) => CallNames(u) = HitCalls
      /\ cache_served[u] = Some(FALSE) => CallNames(u) = MissCalls

\* C6 amended: on a valid cache entry only still_valid_module is called, once;
\* on a miss build_module is called exactly once, and build and succeed_module
\* exactly once each after it, in that order, when the build_module hook
\* succeeded, and not at all when it failed; still_valid_module is not called.
C6_HitOrMissCallsUnlessPreHookFails ==
  \A u \in Units :
    /\ cache_served[u] = Some(TRUE) => IsPrefix(CallNames(u), HitCalls)
    /\ cache_served[u] = Some(FALSE) => IsPrefix(CallNames(u), MissCalls)
    /\ cache_served[u] = None => CallNames(u) = <<>>
    /\ Completed(u) =>
         /\ cache_served[u] = Some(TRUE) => CallNames(u) = HitCalls
         /\ cache_served[u] = Some(FALSE) =>
              IF HasCalled(u, "build_module", TRUE)
                THEN CallNames(u) = MissCalls
                ELSE CallNames(u) = <<"build_module">>

C6_Witness ==
  \E u \in Units, v \in Units :
    /\ pc[u] = "done" /\ cache_served[u] = Some(TRUE)
    /\ pc[v] = "done" /\ cache_served[v] = Some(FALSE)
    /\ CallNames(v) = MissCalls

\* C7: when the build_module hook fails on a cache miss, the build operation
\* and the succeed_module hook are not called for that attempt and async_run
\* ends in failure without a successor task.
C7_PreBuildHookFailureStopsBuild ==
  \A u \in Units :
    HasCalled(u, "build_module", FALSE) =>
      /\ cache_served[u] = Some(FALSE)
      /\ CallNames(u) = <<"build_module">>
      /\ pc[u] = "failed"
      /\ error[u] = Some("build_module")
      /\ TasksOf(u) = {}
      /\ EmittedFor(u) = {}

C7_Witness ==
  \E u \in Units :
    /\ HasCalled(u, "build_module", FALSE)
    /\ pc[u] = "failed"

\* The ids of the blocks of a forest.
RECURSIVE ForestBlockIds(_)
ForestBlockIds(blocks) ==
  {blocks[j].id : j \in 1..Len(blocks)}
  \cup UNION {ForestBlockIds(blocks[j].blocks) : j \in 1..Len(blocks)}

PathsOf(u) == {<<u, kind>> : kind \in {"file", "context", "missing", "build"}}

\* C8: a failed call (build_module, build, succeed_module or
\* still_valid_module) makes async_run fail, and a failed async_run returns no
\* BuildResultTask: its module is not in the graph, the graph holds no
\* dependency, block or parent record of it, no ProcessDependenciesTask names
\* it, and the counters, the diagnostics, the failed-module set and the path
\* sets hold only what the integrated tasks put there.
C8_FailedBuildLeavesNoTrace ==
  /\ \A u \in Units : (Completed(u) /\ HasFailedCall(u)) => pc[u] = "failed"
  /\ \A u \in Units :
       pc[u] = "failed" =>
         /\ TasksOf(u) = {}
         /\ EmittedFor(u) = {}
         /\ u \notin DOMAIN Graph.modules
         /\ \A d \in DOMAIN Graph.parents : Graph.parents[d].module # u
         /\ Graph.module_graph_modules[u].__deprecated_all_dependencies = <<>>
         /\ u \notin context.make_failed_module
         /\ \A j \in 1..Len(context.diagnostics) :
              context.diagnostics[j].module_identifier # Some(u)
         /\ PathsOf(u) \cap (context.file_dependencies \cup context.context_dependencies
                             \cup context.missing_dependencies
                             \cup context.build_dependencies) = {}
  /\ DOMAIN Graph.dependencies = UNION {ForestDependencyIds(t.build_result) : t \in integrated}
  /\ DOMAIN Graph.blocks = UNION {ForestBlockIds(t.build_result.blocks) : t \in integrated}
  /\ is_some(context.build_cache_counter) =>
       unwrap(context.build_cache_counter).hit + unwrap(context.build_cache_counter).miss
         = Cardinality(integrated)

\* One unit failed at still_valid_module after the cache had served an
\* outcome, the other was integrated with a dependency.
C8_Witness ==
  \E u \in Units, v \in Units :
    /\ pc[u] = "failed" /\ HasCalled(u, "still_valid_module", FALSE)
    /\ IntegratedOf(v) # {}
    /\ DOMAIN Graph.dependencies # {}
    /\ is_some(context.build_cache_counter)

RECURSIVE AllDiagnostics(_)
AllDiagnostics(tasks) ==
  IF tasks = {} THEN 0
  ELSE LET t == CHOOSE x \in tasks : TRUE
       IN Len(t.diagnostics) + AllDiagnostics(tasks \ {t})

IsSlice(part, whole) ==
  \E k \in 0..(Len(whole) - Len(part)) : SubSeq(whole, k + 1, k + Len(part)) = part

\* C9: diagnostics do not stop integration.  A task with diagnostics puts its
\* module in make_failed_module and appends all its diagnostics, each tagged
\* with the module's identifier, to the context's diagnostics; its
\* dependencies are linked, its module enters the graph and its
\* ProcessDependenciesTask carries every dependency id.  A module is in
\* make_failed_module only if its task had diagnostics.
C9_DiagnosticsAreNotFatal ==
  /\ \A t \in integrated :
       LET id == t.module.identifier
           r == t.build_result
       IN /\ (t.diagnostics # <<>>) <=> (id \in context.make_failed_module)
          /\ \A j \in 1..Len(t.diagnostics) : t.diagnostics[j].module_identifier = Some(id)
          /\ ~t.from_cache => Len(t.diagnostics) = Len(t.module.diagnostics)
          /\ IsSlice(t.diagnostics, context.diagnostics)
          /\ id \in DOMAIN Graph.modules
          /\ ForestDependencyIds(r) \subseteq DOMAIN Graph.parents
          /\ Cardinality(EmittedFor(id)) = 1
          /\ {EmittedList(id)[j] : j \in 1..Len(EmittedList(id))} = ForestDependencyIds(r)
  /\ context.make_failed_module \subseteq {t.module.identifier : t \in integrated}
  /\ Len(context.diagnostics) = AllDiagnostics(integrated)

\* Scenario 3: an outcome with two diagnostics and a dependency.
C9_Witness ==
  \E t \in integrated :
    /\ Len(t.diagnostics) = 2
    /\ ~t.from_cache
    /\ ForestDependencyIds(t.build_result) # {}
    /\ t.module.identifier \in context.make_failed_module
    /\ t.module.identifier \in DOMAIN Graph.modules
    /\ \E v \in integrated : v.diagnostics = <<>> /\ v # t

\* C10: every integration that completes puts the module in the graph and
\* emits exactly one ProcessDependenciesTask, whose list is the list attached
\* to the module's per-module record; for an outcome without dependencies and
\* blocks the module is in the graph with no block registered and the emitted
\* list is empty.
C10_OneTaskPerIntegration ==
  /\ Len(process_tasks) = Cardinality(integrated \ {t \in integrated : t.module.identifier \in panicked})
  /\ \A t \in integrated :
       LET id == t.module.identifier
           r == t.build_result
       IN id \notin panicked =>
            /\ id \in DOMAIN Graph.modules
            /\ count(Graph.add_module_calls, id) = 1
            /\ Cardinality(EmittedFor(id)) = 1
            /\ EmittedList(id) = Graph.module_graph_modules[id].__deprecated_all_dependencies
            /\ Len(EmittedList(id)) = CountDependencies(r.dependencies, r.blocks)
            /\ (r.dependencies = <<>> /\ r.blocks = <<>>) =>
                 /\ Graph.modules[id].blocks = <<>>
                 /\ EmittedList(id) = <<>>

C10_Witness ==
  \E t \in integrated, v \in integrated :
    /\ t.build_result.dependencies = <<>> /\ t.build_result.blocks = <<>>
    /\ EmittedFor(t.module.identifier) # {}
    /\ EmittedList(t.module.identifier) = <<>>
    /\ Len(v.build_result.dependencies) >= 1
    /\ ForestBlockIds(v.build_result.blocks) # {}
    /\ Len(process_tasks) = 2

\* Every way of working through the pending blocks: at each step any pending
\* block is handled next, and the blocks it returns become pending.
RECURSIVE TraversalsFrom(_, _)
TraversalsFrom(s, pending) ==
  IF pending = <<>> THEN {s}
  ELSE UNION {
         LET block == pending[i]
             rest == SubSeq(pending, 1, i - 1) \o SubSeq(pending, i + 1, Len(pending))
             r == handle_block(s, block.dependencies, block.blocks, Some(taken(block)))
         IN TraversalsFrom(r.state, rest \o r.blocks)
         : i \in 1..Len(pending)}

Traversals(t) ==
  LET s0 == [module |-> t.module, all_dependencies |-> <<>>,
             module_graph |-> NewModuleGraph]
      r == handle_block(s0, t.build_result.dependencies, t.build_result.blocks, None)
  IN TraversalsFrom(r.state, r.blocks)

Range(list) == {list[j] : j \in 1..Len(list)}

\* C11: the result of the flatten does not depend on the order in which the
\* pending blocks are handled: whatever block is taken next (first in, last
\* in or any other), the linked dependency ids, the parent records and the
\* inserted blocks are those the queue order of the code gives; only the
\* sequence of the flat id list may differ.
C11_TraversalOrderIsImmaterial ==
  \A t \in integrated :
    \A s \in Traversals(t) :
      /\ s.module_graph.parents = Graph.parents
      /\ DOMAIN s.module_graph.dependencies = DOMAIN Graph.dependencies
      /\ s.module_graph.blocks = Graph.blocks
      /\ Range(s.all_dependencies) = Range(EmittedList(t.module.identifier))
      /\ Len(s.all_dependencies) = Len(EmittedList(t.module.identifier))

\* A forest for which another order gives another sequence.
C11_Witness ==
  \E t \in integrated :
    /\ Cardinality(Traversals(t)) >= 2
    /\ \E s \in Traversals(t) : s.all_dependencies # EmittedList(t.module.identifier)
    /\ ForestDepth(t.build_result.blocks) >= 2

BuildCalls(u) == Cardinality({i \in 1..Len(trace[u]) : trace[u][i].call = "build"})

\* C12: a BuildTask whose use_cache call comes while another task's compute
\* closure for the same module identifier is running does not run the
\* closure: it waits, makes no call of build_module, Module::build or
\* succeed_module, and use_cache returns to it what it returned to the
\* computing task, so the two tasks have called Module::build once between
\* them and end alike.
C12_InFlightBuildIsShared ==
  [][\A u \in Units :
       /\ (pc[u] = "use_cache" /\ ComputingFor(u) # {} /\ pc'[u] # pc[u])
            => pc'[u] = "awaiting"
       /\ (pc[u] = "awaiting" /\ pc'[u] # pc[u])
            => \E v \in Units \ {u} :
                 /\ module[v].identifier = module[u].identifier
                 /\ returned'[u] = returned[v]
                 /\ is_some(returned'[u])
                 /\ pc'[u] = pc[v]
                 /\ error'[u] = error[v]
                 /\ CallNames(u)' = <<>>
                 /\ BuildCalls(u)' + BuildCalls(v)' =
                      IF HasCalled(v, "build_module", TRUE) THEN 1 ELSE 0
                 /\ (pc'[u] = "done" =>
                       \E t \in result_tasks' :
                         /\ t.module = module[u]
                         /\ t.from_cache = FALSE
                         /\ Ok(with_diagnostic(t.build_result, t.diagnostics))
                              = unwrap(returned[v]).val[1])]_vars

\* The second task waited for a build that succeeded, and the second task for
\* a computation that failed.
C12_Witness ==
  \E u \in Units :
    /\ cache_served[u] = Some(FALSE)
    /\ pc[u] = "done"
    /\ BuildCalls(u) = 0
    /\ \E v \in Units \ {u} : BuildCalls(v) = 1 /\ pc[v] = "done"

CallsOf(u, call) == {j \in 1..Len(trace[u]) : trace[u][j].call = call}

\* C13: on a miss whose build_module hook succeeded, once Module::build has
\* returned, with Ok or with an error, the succeed_module hook is called
\* exactly once, right after the build; when the hook fails async_run fails
\* with the hook's error and returns no successor task, also when the build
\* had succeeded.
C13_SucceedModuleRunsAfterEveryBuild ==
  \A u \in Units :
    /\ \A j \in CallsOf(u, "build") :
         /\ j > 1 /\ trace[u][j - 1] = Called("build_module", TRUE)
         /\ pc[u] # "succeed_module" =>
              /\ Completed(u)
              /\ Cardinality(CallsOf(u, "succeed_module")) = 1
              /\ CallsOf(u, "succeed_module") = {j + 1}
         /\ pc[u] = "succeed_module" => CallsOf(u, "succeed_module") = {}
    /\ CallsOf(u, "succeed_module") # {} => Cardinality(CallsOf(u, "build")) = 1
    /\ HasCalled(u, "succeed_module", FALSE) =>
         /\ pc[u] = "failed"
         /\ error[u] = Some("succeed_module")
         /\ TasksOf(u) = {}
         /\ EmittedFor(u) = {}

\* The hook ran after a build that failed, and a hook failure after a build
\* that succeeded ended the task.
C13_Witness ==
  \E u \in Units, v \in Units :
    /\ HasCalled(u, "build", FALSE) /\ HasCalled(u, "succeed_module", TRUE)
    /\ pc[u] = "failed" /\ error[u] = Some("build")
    /\ HasCalled(v, "build", TRUE) /\ HasCalled(v, "succeed_module", FALSE)
    /\ pc[v] = "failed"

Counter == context.build_cache_counter
Integrations(from_cache) == {t \in integrated : t.from_cache = from_cache}

\* C14: with a cache counter present, a step changes the counter only by
\* running sync_run, which adds exactly one to hit when the task's from_cache
\* is true and exactly one to miss otherwise; so at every moment hit is the
\* number of from_cache tasks integrated so far, miss the number of the others,
\* their sum the number of sync_run calls made, and a BuildTask that failed is
\* counted in neither.
C14_CounterCountsIntegrations ==
  /\ is_some(Counter) =>
       /\ unwrap(Counter).hit = Cardinality(Integrations(TRUE))
       /\ unwrap(Counter).miss = Cardinality(Integrations(FALSE))
       /\ unwrap(Counter).hit + unwrap(Counter).miss = Len(process_tasks)
       /\ Len(process_tasks) = Cardinality(integrated)
  /\ \A u \in Units : pc[u] = "failed" => IntegratedOf(u) = {}
  /\ Cardinality(integrated) <= Cardinality({u \in Units : pc[u] = "done"})

\* One task served by the cache and one built have both been integrated.
C14_Witness ==
  /\ is_some(Counter)
  /\ unwrap(Counter).hit = 1
  /\ unwrap(Counter).miss = 1
  /\ Cardinality(integrated) = 2

\* C15: a sync_run step consumes one BuildResultTask whose module's BuildTask
\* has returned Ok: the task holds the module that BuildTask owned, the
\* outcome and diagnostics use_cache returned to it, its profile, and for
\* from_cache the validity flag use_cache returned; whatever the other
\* BuildTasks have done meanwhile, the outcome is not one returned to another
\* module's BuildTask.
C15_IntegrationSeesItsOwnBuild ==
  [][integrated' # integrated =>
       \E t \in result_tasks :
         LET u == t.module.identifier
         IN /\ integrated' = integrated \cup {t}
            /\ t \notin integrated
            /\ result_tasks' = result_tasks \ {t}
            /\ pc[u] = "done"
            /\ error[u] = None
            /\ t.module = module[u]
            /\ t.current_profile = current_profile[u]
            /\ is_some(returned[u])
            /\ unwrap(returned[u])
                 = Ok(<<Ok(with_diagnostic(t.build_result, t.diagnostics)), t.from_cache>>)
            /\ t.from_cache = (cache_served[u] = Some(TRUE))
            /\ t.build_result.build_meta = <<u, "meta">>
            /\ \A j \in 1..Len(t.diagnostics) :
                 t.diagnostics[j].module_identifier = Some(u)
            /\ \A v \in Units \ {u} :
                 is_some(returned[v]) /\ unwrap(returned[v]).ok
                   => unwrap(returned[v]).val[1] # Ok(with_diagnostic(t.build_result, t.diagnostics))
            /\ Graph'.modules[u].build_meta = Some(t.build_result.build_meta)
    ]_vars

\* A unit is integrated after the other unit's BuildTask has returned its own
\* outcome, the one from the cache and the other built.
C15_Witness ==
  \E t \in integrated :
    \E v \in Units \ {t.module.identifier} :
      /\ pc[v] = "done"
      /\ is_some(returned[v])
      /\ t.from_cache
      /\ ~unwrap(returned[v]).val[2]
      /\ t.diagnostics # <<>>
      /\ IntegratedOf(v) = {}

\* C16: no step of a BuildTask (a step that moves some async_run on, whatever
\* await the other BuildTasks stand at) changes the context: the module graph,
\* the diagnostics, the failed modules, the four dependency path sets and the
\* cache counter stay as they are, and so does the list of emitted tasks.  The
\* context changes only in a step that runs sync_run for exactly one
\* BuildResultTask, during which no BuildTask moves.
C16_OnlySyncRunTouchesContext ==
  [][/\ (\E u \in Units : pc'[u] # pc[u] \/ trace'[u] # trace[u]) =>
          /\ context' = context
          /\ process_tasks' = process_tasks
          /\ integrated' = integrated
     /\ (context' # context \/ process_tasks' # process_tasks) =>
          /\ \E t \in result_tasks :
               /\ result_tasks' = result_tasks \ {t}
               /\ integrated' = integrated \cup {t}
               /\ context' = sync_run(t, context).context
          /\ Cardinality(integrated') = Cardinality(integrated) + 1
          /\ pc' = pc /\ trace' = trace /\ module' = module
    ]_vars

\* A BuildTask stands inside its compute closure while the other unit has been
\* integrated with diagnostics and counted.
C16_Witness ==
  \E u \in Units :
    /\ pc[u] = "succeed_module"
    /\ \E t \in integrated :
         /\ t.module.identifier # u
         /\ t.diagnostics # <<>>
         /\ context.diagnostics # <<>>
         /\ is_some(Counter)

EndMarks(u) == CallsOf(u, "mark_building_end")
StartsWithMark(u) ==
  /\ Len(trace[u]) >= 2
  /\ trace[u][1] = Called("mark_building_start", TRUE)
  /\ trace[u][2] = Called("use_cache", TRUE)
  /\ unwrap(current_profile[u]).building_start

\* The run left async_run through a ? of line 84 or line 91.
LeftEarly(u) ==
  /\ pc[u] = "failed"
  /\ \/ ~unwrap(returned[u]).ok
     \/ HasCalled(u, "still_valid_module", FALSE)

\* C17: with a profile requested, every async_run marks the start of the build
\* before it calls use_cache, and every async_run that has returned, with a
\* successor or with an error, has marked the end of the build as the last
\* thing before returning; sync_run puts the profile on the module's graph
\* record.
C17_EveryRunMarksEnd ==
  /\ \A u \in Units :
       is_some(current_profile[u]) =>
         /\ StartsWithMark(u)
         /\ Completed(u) =>
              /\ EndMarks(u) = {Len(trace[u])}
              /\ unwrap(current_profile[u]).building_end
         /\ ~Completed(u) => EndMarks(u) = {}
  /\ \A t \in integrated :
       is_some(t.current_profile) =>
         Graph.module_graph_modules[t.module.identifier].profile = t.current_profile

\* C17 amended: with a profile requested, every async_run marks the start of
\* the build before it calls use_cache; an async_run that reaches line 94, to
\* return a successor or the error of the build, has marked the end of the
\* build after use_cache and the hooks and last before returning; an
\* async_run that use_cache's own error or a failure of the
\* still_valid_module hook ended has returned without marking the end;
\* sync_run puts the profile, with both marks, on the module's graph record.
C17_RunsReachingLine94MarkEnd ==
  /\ \A u \in Units :
       is_some(current_profile[u]) =>
         /\ StartsWithMark(u)
         /\ (Completed(u) /\ ~LeftEarly(u)) =>
              /\ EndMarks(u) = {Len(trace[u])}
              /\ unwrap(current_profile[u]).building_end
         /\ (~Completed(u) \/ LeftEarly(u)) =>
              /\ EndMarks(u) = {}
              /\ ~unwrap(current_profile[u]).building_end
  /\ \A u \in Units : current_profile[u] = None => \A j \in 1..Len(trace[u]) :
       trace[u][j].call \notin {"mark_building_start", "mark_building_end"}
  /\ \A t \in integrated :
       is_some(t.current_profile) =>
         /\ Graph.module_graph_modules[t.module.identifier].profile = t.current_profile
         /\ unwrap(t.current_profile).building_start
         /\ unwrap(t.current_profile).building_end

\* A profiled run ended by the still_valid_module hook, without end mark, and
\* a profiled unit integrated.
C17_Witness ==
  \E u \in Units, t \in integrated :
    /\ is_some(current_profile[u])
    /\ HasCalled(u, "still_valid_module", FALSE)
    /\ EndMarks(u) = {}
    /\ is_some(t.current_profile)
    /\ is_some(Graph.module_graph_modules[t.module.identifier].profile)

\* C18: sync_run fetches the per-module record of the graph or creates it:
\* integrating a module for which the graph holds no record completes like any
\* other integration, with the record holding the flat list, the module in
\* the graph and the successor task returned, and does not abort after the
\* dependencies and blocks have been inserted.
C18_IntegrationCreatesMissingRecord ==
  \A t \in integrated :
    LET u == t.module.identifier
    IN /\ u \notin panicked
       /\ u \in DOMAIN Graph.module_graph_modules
       /\ u \in DOMAIN Graph.modules
       /\ EmittedFor(u) # {}
       /\ Graph.module_graph_modules[u].__deprecated_all_dependencies = EmittedList(u)

Distinct(list) == \A i, j \in 1..Len(list) : list[i] = list[j] => i = j

RECURSIVE BlockOf(_, _)
BlockOf(blocks, id) ==
  LET here == {j \in 1..Len(blocks) : blocks[j].id = id}
  IN IF here # {} THEN blocks[CHOOSE j \in here : TRUE]
     ELSE LET below == Flat([j \in 1..Len(blocks) |-> blocks[j].blocks])
          IN BlockOf(below, id)

\* What holds of the loop's locals while sync_run is under way: the blocks
\* dequeued so far and those in the queue are distinct blocks of the forest;
\* a dequeued block is in the graph, inserted once, with its dependencies
\* linked to it and its child blocks in the queue or dequeued after it; a
\* block in the queue has not been inserted.
LoopInvariant ==
  is_some(loop) =>
    LET l == unwrap(loop)
        forest == l.task.build_result.blocks
        queued == [j \in 1..Len(l.queue) |-> l.queue[j].id]
    IN /\ Distinct(l.dequeued \o queued)
       /\ Range(l.dequeued) \cup Range(queued) \subseteq ForestBlockIds(forest)
       /\ \A j \in 1..Len(l.queue) : l.queue[j] = BlockOf(forest, queued[j])
       /\ \A b \in Range(queued) :
            /\ count(Graph.add_block_calls, b) = 0
            /\ b \notin DOMAIN Graph.blocks
       /\ \A b \in Range(l.dequeued) :
            LET block == BlockOf(forest, b)
            IN /\ count(Graph.add_block_calls, b) = 1
               /\ b \in DOMAIN Graph.blocks
               /\ Occurrences(l.module.blocks, b) = 1
               /\ \A j \in 1..Len(block.dependencies) :
                    LET d == block.dependencies[j].id
                    IN /\ d \in DOMAIN Graph.parents
                       /\ Graph.parents[d].block = Some(b)
                       /\ count(Graph.set_parents_calls, d) = 1
               /\ \A j \in 1..Len(block.blocks) :
                    \/ block.blocks[j].id \in Range(queued)
                    \/ /\ block.blocks[j].id \in Range(l.dequeued)
                       /\ IndexOf(l.dequeued, block.blocks[j].id) > IndexOf(l.dequeued, b)

\* What holds of the step that leaves the loop: the queue is empty, every
\* block of the forest has been dequeued, once, and the context and the task
\* returned are those of sync_run taken whole.
LoopEnd ==
  (is_some(loop) /\ loop' = None) =>
    LET l == unwrap(loop)
        forest == l.task.build_result.blocks
        counter == IF is_some(Counter) THEN Some([hit |-> 0, miss |-> 0]) ELSE None
        whole == sync_run(l.task, NewContext(FALSE, counter))
    IN /\ l.queue = <<>>
       /\ Range(l.dequeued) = ForestBlockIds(forest)
       /\ Len(l.dequeued) = CountBlocks(forest)
       /\ \A b \in ForestBlockIds(forest) : count(Graph'.add_block_calls, b) = 1
       /\ context' = whole.context
       /\ process_tasks' = whole.tasks

RECURSIVE RunInOrder(_, _)
RunInOrder(order, c) ==
  IF order = <<>> THEN c
  ELSE RunInOrder(Tail(order), sync_run(Head(order), c).context)

Orders(tasks) ==
  {order \in [1..Cardinality(tasks) -> tasks] :
     \A i, j \in 1..Cardinality(tasks) : order[i] = order[j] => i = j}

\* The context before any integration.
FirstContext ==
  NewContext(context.compiler_options.tree_shaking,
             IF is_some(Counter) THEN Some([hit |-> 0, miss |-> 0]) ELSE None)

SameDiagnostics(a, b) ==
  /\ Len(a) = Len(b)
  /\ \A j \in 1..Len(a) : Occurrences(a, a[j]) = Occurrences(b, a[j])

\* C20: integrations of different modules commute.  Whatever order the
\* BuildTasks returned in and whatever order sync_run took their tasks in, the
\* context is the one every other order of the same tasks leaves: the same
\* graph (modules, dependencies, blocks, parent records, per-module flat
\* lists), the same failed modules, path sets and analysis map, the same hit
\* and miss counts, and the same diagnostics up to their sequence.
C20_IntegrationsCommute ==
  \A order \in Orders(integrated) :
    LET c == RunInOrder(order, FirstContext)
    IN /\ c.module_graph_partial = Graph
       /\ c.make_failed_module = context.make_failed_module
       /\ c.build_cache_counter = Counter
       /\ c.optimize_analyze_result_map = context.optimize_analyze_result_map
       /\ c.file_dependencies = context.file_dependencies
       /\ c.context_dependencies = context.context_dependencies
       /\ c.missing_dependencies = context.missing_dependencies
       /\ c.build_dependencies = context.build_dependencies
       /\ SameDiagnostics(c.diagnostics, context.diagnostics)

\* Both modules are integrated, one served by the cache, both with
\* diagnostics and dependencies, and the other order gives the diagnostics in
\* another sequence.
C20_Witness ==
  /\ Cardinality(integrated) = 2
  /\ is_some(Counter)
  /\ unwrap(Counter).hit = 1
  /\ Cardinality(context.make_failed_module) = 2
  /\ Cardinality(DOMAIN Graph.dependencies) = 2
  /\ \E order \in Orders(integrated) :
       RunInOrder(order, FirstContext).diagnostics # context.diagnostics

====
